---------------------------- MODULE Spec2Model ----------------------------
(***************************************************************************)
(* A model of ultrack-td's segmentation-hypothesis core:                   *)
(*   src/src/union_find.h  UnionFind (disjoint sets over sparse indices)   *)
(*   src/src/ultrack.h     Segment, argsort, hierarchical_watershed,       *)
(*                         compute_connected_components,                   *)
(*                         compute_segmentation_hypotheses                 *)
(*                                                                         *)
(* C++ vectors are sequences; a 0-based position p of a vector is position *)
(* p + 1 of the sequence.  Methods that change the object return a record  *)
(* [uf |-> the object afterwards, ret |-> the returned value].             *)
(***************************************************************************)
EXTENDS Integers, Sequences, FiniteSets, TLC

(***************************************************************************)
(* Bounds of the model.                                                    *)
(***************************************************************************)
\* external indices handed to the UnionFind interface are 0 .. MaxId
MaxId == 3
\* grids have depth * height * width <= MaxVoxels voxels
MaxVoxels == 4

(***************************************************************************)
(* src/src/union_find.h                                                    *)
(***************************************************************************)
\* UnionFind(): the empty structure
UnionFindEmpty ==
    [parent |-> <<>>, rank |-> <<>>, size |-> <<>>,
     id_map |-> <<>>, reverse_map |-> <<>>, num_components |-> 0]

\* contains(x)
contains(this, x) ==
    x \in DOMAIN this.id_map

\* add without the test of line 58: a known x gets a second slot
add_unchecked(this, x) ==
    LET internal_id == Len(this.parent)
    IN  [parent |-> Append(this.parent, internal_id),
         rank |-> Append(this.rank, 0),
         size |-> Append(this.size, 1),
         id_map |-> [k \in DOMAIN this.id_map \cup {x} |->
                        IF k = x THEN internal_id ELSE this.id_map[k]],
         reverse_map |-> Append(this.reverse_map, x),
         num_components |-> this.num_components + 1]

\* add(x): a new singleton in the next dense slot, nothing when x is known
add(this, x) ==
    IF x \notin DOMAIN this.id_map
    THEN LET internal_id == Len(this.parent)
         IN  [parent |-> Append(this.parent, internal_id),
              rank |-> Append(this.rank, 0),
              size |-> Append(this.size, 1),
              id_map |-> [k \in DOMAIN this.id_map \cup {x} |->
                             IF k = x THEN internal_id ELSE this.id_map[k]],
              reverse_map |-> Append(this.reverse_map, x),
              num_components |-> this.num_components + 1]
    ELSE this

\* UnionFind(elements): add every element in order
RECURSIVE UnionFindFrom(_, _, _)
UnionFindFrom(this, elements, k) ==
    IF k > Len(elements) THEN this
    ELSE UnionFindFrom(add(this, elements[k]), elements, k + 1)

\* line 121 with a default-constructed UnionFind: nothing registered up front
UnionFindOf_nothing_added(elements) ==
    UnionFindEmpty

UnionFindOf(elements) ==
    UnionFindFrom(UnionFindEmpty, elements, 1)

\* find_internal that reads the parent once instead of walking to the root
find_internal_one_step(this, internal_id) ==
    [uf |-> this, ret |-> this.parent[internal_id + 1]]

\* find_internal(internal_id): the root, every slot on the way re-parented to it
RECURSIVE find_internal(_, _)
find_internal(this, internal_id) ==
    IF this.parent[internal_id + 1] # internal_id
    THEN LET r == find_internal(this, this.parent[internal_id + 1])
         IN  [uf |-> [r.uf EXCEPT !.parent[internal_id + 1] = r.ret],
              ret |-> r.ret]
    ELSE [uf |-> this, ret |-> this.parent[internal_id + 1]]

\* get_or_add_id(x)
get_or_add_id(this, x) ==
    IF x \in DOMAIN this.id_map
    THEN [uf |-> this, ret |-> this.id_map[x]]
    ELSE LET a == add(this, x) IN [uf |-> a, ret |-> a.id_map[x]]

\* find(x)
find(this, x) ==
    LET a == IF x \notin DOMAIN this.id_map THEN add(this, x) ELSE this
    IN  find_internal(a, a.id_map[x])

\* link that forgets line 113, the size of the root that survives
link_size_forgotten(this, root_x, root_y) ==
    LET rx == this.rank[root_x + 1]
        ry == this.rank[root_y + 1]
        linked ==
            IF rx < ry
            THEN [this EXCEPT !.parent[root_x + 1] = root_y]
            ELSE IF rx > ry
            THEN [this EXCEPT !.parent[root_y + 1] = root_x,
                              !.size[root_x + 1] = @ + this.size[root_y + 1]]
            ELSE [this EXCEPT !.parent[root_y + 1] = root_x,
                              !.size[root_x + 1] = @ + this.size[root_y + 1],
                              !.rank[root_x + 1] = @ + 1]
    IN  [linked EXCEPT !.num_components = @ - 1]

\* link that on equal ranks attaches x's root under y's root
link_tie_under_y(this, root_x, root_y) ==
    LET rx == this.rank[root_x + 1]
        ry == this.rank[root_y + 1]
        linked ==
            IF rx <= ry
            THEN [this EXCEPT !.parent[root_x + 1] = root_y,
                            !.size[root_y + 1] = @ + this.size[root_x + 1],
                            !.rank[root_y + 1] = IF rx = ry THEN @ + 1 ELSE @]
            ELSE [this EXCEPT !.parent[root_y + 1] = root_x,
                            !.size[root_x + 1] = @ + this.size[root_y + 1]]
    IN  [linked EXCEPT !.num_components = @ - 1]

\* the linking part of unite (lines 110-124), roots known and different
link(this, root_x, root_y) ==
    LET rx == this.rank[root_x + 1]
        ry == this.rank[root_y + 1]
        linked ==
            IF rx < ry
            THEN [this EXCEPT !.parent[root_x + 1] = root_y,
                            !.size[root_y + 1] = @ + this.size[root_x + 1]]
            ELSE IF rx > ry
            THEN [this EXCEPT !.parent[root_y + 1] = root_x,
                            !.size[root_x + 1] = @ + this.size[root_y + 1]]
            ELSE [this EXCEPT !.parent[root_y + 1] = root_x,
                            !.size[root_x + 1] = @ + this.size[root_y + 1],
                            !.rank[root_x + 1] = @ + 1]
    IN  [linked EXCEPT !.num_components = @ - 1]

\* unite that compares the two slots instead of their roots at line 106
unite_slots_compared(this, x, y) ==
    LET ix == get_or_add_id(this, x)
        iy == get_or_add_id(ix.uf, y)
        fx == find_internal(iy.uf, ix.ret)
        fy == find_internal(fx.uf, iy.ret)
    IN  IF ix.ret = iy.ret
        THEN [uf |-> fy.uf, ret |-> FALSE]
        ELSE [uf |-> link(fy.uf, fx.ret, fy.ret), ret |-> TRUE]

\* unite(x, y)
unite(this, x, y) ==
    LET ix == get_or_add_id(this, x)
        iy == get_or_add_id(ix.uf, y)
        fx == find_internal(iy.uf, ix.ret)
        fy == find_internal(fx.uf, iy.ret)
    IN  IF fx.ret = fy.ret
        THEN [uf |-> fy.uf, ret |-> FALSE]
        ELSE [uf |-> link(fy.uf, fx.ret, fy.ret), ret |-> TRUE]

\* connected(x, y)
connected(this, x, y) ==
    IF ~contains(this, x) \/ ~contains(this, y)
    THEN [uf |-> this, ret |-> FALSE]
    ELSE LET fx == find_internal(this, this.id_map[x])
             fy == find_internal(fx.uf, this.id_map[y])
         IN  [uf |-> fy.uf, ret |-> fx.ret = fy.ret]

\* get_size that reads the size stored at x's own slot, not at its root
get_size_of_slot(this, x) ==
    IF ~contains(this, x)
    THEN [uf |-> this, ret |-> 0]
    ELSE [uf |-> this, ret |-> this.size[this.id_map[x] + 1]]

\* get_size(x)
get_size(this, x) ==
    IF ~contains(this, x)
    THEN [uf |-> this, ret |-> 0]
    ELSE LET f == find_internal(this, this.id_map[x])
         IN  [uf |-> f.uf, ret |-> f.uf.size[f.ret + 1]]

\* count()
count(this) ==
    this.num_components

\* the loop of get_component with parent[i] read in place of find_internal(i)
RECURSIVE get_component_loop_parent_read(_, _, _, _)
get_component_loop_parent_read(this, root, i, component) ==
    IF i >= Len(this.parent) THEN [uf |-> this, ret |-> component]
    ELSE get_component_loop_parent_read(
             this, root, i + 1,
             IF this.parent[i + 1] = root
             THEN Append(component, this.reverse_map[i + 1])
             ELSE component)

\* the loop of get_component (lines 205-209) from slot i on
RECURSIVE get_component_loop(_, _, _, _)
get_component_loop(this, root, i, component) ==
    IF i >= Len(this.parent) THEN [uf |-> this, ret |-> component]
    ELSE LET f == find_internal(this, i)
         IN  get_component_loop(
                 f.uf, root, i + 1,
                 IF f.ret = root THEN Append(component, f.uf.reverse_map[i + 1])
                 ELSE component)

\* get_component whose loop of line 205 starts at slot 1
get_component_from_slot_one(this, x) ==
    IF x \notin DOMAIN this.id_map
    THEN [uf |-> this, ret |-> <<>>]
    ELSE LET f == find_internal(this, this.id_map[x])
         IN  get_component_loop(f.uf, f.ret, 1, <<>>)

\* get_component(x)
get_component(this, x) ==
    IF ~contains(this, x)
    THEN [uf |-> this, ret |-> <<>>]
    ELSE LET f == find_internal(this, this.id_map[x])
         IN  get_component_loop(f.uf, f.ret, 0, <<>>)

(***************************************************************************)
(* src/src/ultrack.h: voxel indices, Segment, argsort                      *)
(*                                                                         *)
(* Floats are kept in half units: the float f is the integer 2 * f, so the *)
(* weight 0.5f * (a + b) of line 217 is a + b, and min_frontier is the     *)
(* double of the threshold passed in.  Comparisons are unchanged.          *)
(***************************************************************************)
\* idx / (height * width), (idx % (height * width)) / width, idx % width
z_of(id, h, w) == id \div (h * w)
y_of(id, h, w) == (id % (h * w)) \div w
x_of(id, h, w) == id % w

SeqRange(s) == {s[k] : k \in 1..Len(s)}

MinOf(S) == CHOOSE m \in S : \A n \in S : m <= n
MaxOf(S) == CHOOSE m \in S : \A n \in S : m >= n

\* the position written at line 37 for voxel id
mask_pos(id, mn_z, mn_y, mn_x, mask_height, mask_width, h, w) ==
    (z_of(id, h, w) - mn_z) * mask_height * mask_width
        + (y_of(id, h, w) - mn_y) * mask_width
        + (x_of(id, h, w) - mn_x)

\* Segment::from_visited_and_bbox.  mask.data is the zeroed buffer with the
\* positions of line 37 set; oob says that some write fell outside the buffer.
from_visited_and_bbox(vis, mn_z, mn_y, mn_x, mx_z, mx_y, mx_x, d, h, w) ==
    LET mask_depth == mx_z - mn_z + 1
        mask_height == mx_y - mn_y + 1
        mask_width == mx_x - mn_x + 1
        cells == 0..(mask_depth * mask_height * mask_width - 1)
        written == {mask_pos(vis[k], mn_z, mn_y, mn_x, mask_height, mask_width, h, w) :
                       k \in 1..Len(vis)}
    IN  [mask |-> [shape |-> <<mask_depth, mask_height, mask_width>>,
                   data |-> [p \in cells |-> p \in written]],
         bbox |-> <<mn_z, mn_y, mn_x, mx_z, mx_y, mx_x>>,
         num_pixels |-> Len(vis),
         z |-> mn_z, y |-> mn_y, x |-> mn_x,
         oob |-> ~(written \subseteq cells)]


\* Segment::from_visited with the three minima started at 0 like the maxima
from_visited_min_from_zero(vis, d, h, w) ==
    LET zs == {z_of(vis[k], h, w) : k \in 1..Len(vis)}
        ys == {y_of(vis[k], h, w) : k \in 1..Len(vis)}
        xs == {x_of(vis[k], h, w) : k \in 1..Len(vis)}
    IN  from_visited_and_bbox(
            vis,
            MinOf({0} \cup zs), MinOf({0} \cup ys), MinOf({0} \cup xs),
            MaxOf({0} \cup zs), MaxOf({0} \cup ys), MaxOf({0} \cup xs),
            d, h, w)

\* Segment::from_visited: the box is recomputed from the list
from_visited(vis, d, h, w) ==
    LET zs == {z_of(vis[k], h, w) : k \in 1..Len(vis)}
        ys == {y_of(vis[k], h, w) : k \in 1..Len(vis)}
        xs == {x_of(vis[k], h, w) : k \in 1..Len(vis)}
    IN  from_visited_and_bbox(
            vis,
            MinOf({d - 1} \cup zs), MinOf({h - 1} \cup ys), MinOf({w - 1} \cup xs),
            MaxOf({0} \cup zs), MaxOf({0} \cup ys), MaxOf({0} \cup xs),
            d, h, w)

\* argsort: std::sort leaves the order of equal weights unspecified, so every
\* ordering of 0 .. n-1 with non-decreasing weights is a possible result
argsort(array) ==
    {p \in [1..Len(array) -> 0..(Len(array) - 1)] :
        /\ \A a, b \in 1..Len(array) : a # b => p[a] # p[b]
        /\ \A a, b \in 1..Len(array) : a < b => ~(array[p[b] + 1] < array[p[a] + 1])}

\* the offsets with the +y step written as a step in y and x at once
offsets_with_diagonal ==
    << 0, 0, 1,   0, 1, 1,   1, 0, 0,   0, -1, 0,   0, 0, -1,   -1, 0, 0 >>

\* int offsets[18], lines 167-174
offsets ==
    << 0, 0, 1,   0, 1, 0,   1, 0, 0,   0, -1, 0,   0, 0, -1,   -1, 0, 0 >>

(***************************************************************************)
(* State.                                                                  *)
(***************************************************************************)
VARIABLES
    \* compute_segmentation_hypotheses: arguments and locals
    depth, height, width, fg_data, ctr_data,
    min_num_pixels, max_num_pixels, min_frontier,
    seen_data, segments, scan_z, scan_y, scan_x,
    \* compute_connected_components: locals of the running call
    queue, visited, edges, weights, box, idx, nb_i,
    \* hierarchical_watershed: locals of the running call
    sorted_indices, uf, num_segments, ws_i,
    \* where control is: "scan", "pop", "nbr", "ws", "done"; "api" in SpecUF
    pc,
    \* history: one record per finished compute_connected_components call,
    \* and one per Segment of segments (how it came to be)
    calls, seg_info,
    \* the Segment sequences returned by the earlier runs on the same arguments
    earlier

inputs == <<depth, height, width, fg_data, ctr_data,
            min_num_pixels, max_num_pixels, min_frontier>>
scanner == <<scan_z, scan_y, scan_x>>
fill == <<queue, visited, edges, weights, box, idx, nb_i>>
shed == <<sorted_indices, uf, num_segments, ws_i>>
vars == <<inputs, seen_data, segments, scanner, fill, shed, pc, calls, seg_info,
          earlier>>

\* grid extents: every depth x height x width of at most MaxVoxels voxels
Shapes ==
    {s \in (1..MaxVoxels) \X (1..MaxVoxels) \X (1..MaxVoxels) :
        s[1] * s[2] * s[3] <= MaxVoxels}

\* the values of the boundary field: a low and a high value, so that the
\* weight of an edge, the mean of its two ends, is 0, 1 or 2 in half units
CtrValues == {0, 1}

\* the parameter values tried: sizes of a merge are 2 .. MaxVoxels; min_frontier
\* (in half units too) is below every weight, equal to the middle weight, or
\* equal to the largest
MinNumPixelsValues == {0, 2}
MaxNumPixelsValues == {2, MaxVoxels, MaxVoxels + 1}
MinFrontierValues == {-1, 1, 2}

Voxels == 0..(depth * height * width - 1)

NoBox == [min_z |-> 0, min_y |-> 0, min_x |-> 0, max_z |-> 0, max_y |-> 0, max_x |-> 0]

IdleFill ==
    /\ queue = <<>> /\ visited = <<>> /\ edges = <<>> /\ weights = <<>>
    /\ box = NoBox /\ idx = 0 /\ nb_i = 0

IdleShed ==
    /\ sorted_indices = <<>> /\ uf = UnionFindEmpty /\ num_segments = 0 /\ ws_i = 0

\* lines 249-259: seen_data zeroed, segments empty, the loops at (0, 0, 0).
\* The boundary field is read at foreground voxels only (lines 210, 217), so
\* its value elsewhere is fixed to 0.
Init ==
    /\ \E s \in Shapes : depth = s[1] /\ height = s[2] /\ width = s[3]
    /\ fg_data \in [Voxels -> BOOLEAN]
    /\ ctr_data \in [Voxels -> CtrValues]
    /\ \A v \in Voxels : ~fg_data[v] => ctr_data[v] = 0
    /\ min_num_pixels \in MinNumPixelsValues
    /\ max_num_pixels \in MaxNumPixelsValues
    /\ min_frontier \in MinFrontierValues
    /\ seen_data = [v \in Voxels |-> FALSE]
    /\ segments = <<>>
    /\ scan_z = 0 /\ scan_y = 0 /\ scan_x = 0
    /\ IdleFill /\ IdleShed
    /\ pc = "scan"
    /\ calls = <<>> /\ seg_info = <<>> /\ earlier = <<>>

(***************************************************************************)
(* compute_segmentation_hypotheses: the loops of lines 261-276              *)
(***************************************************************************)
\* idx of line 266
scan_idx == scan_z * height * width + scan_y * width + scan_x

\* the test of line 267 without its !seen_data[idx] half
is_seed_seen_ignored(fg, seen, id) == fg[id]

\* line 267
is_seed(fg, seen, id) == fg[id] /\ ~seen[id]

\* the loops with the two outer increments left out: x starts over in the same
\* row
scan_advance_same_row ==
    IF scan_x + 1 < width
    THEN scan_z' = scan_z /\ scan_y' = scan_y /\ scan_x' = scan_x + 1
    ELSE scan_z' = scan_z /\ scan_y' = scan_y /\ scan_x' = 0

\* x++, then y++ and z++ as the inner loops run out
scan_advance ==
    IF scan_x + 1 < width
    THEN scan_z' = scan_z /\ scan_y' = scan_y /\ scan_x' = scan_x + 1
    ELSE IF scan_y + 1 < height
    THEN scan_z' = scan_z /\ scan_y' = scan_y + 1 /\ scan_x' = 0
    ELSE scan_z' = scan_z + 1 /\ scan_y' = 0 /\ scan_x' = 0

\* a loop body whose test of line 267 fails
ScanSkip ==
    /\ pc = "scan" /\ scan_z < depth
    /\ ~is_seed(fg_data, seen_data, scan_idx)
    /\ scan_advance
    /\ UNCHANGED <<inputs, earlier, seen_data, segments, fill, shed, pc, calls, seg_info>>

\* line 268: the call, up to the loop of line 183 (lines 161-181)
ScanCall ==
    /\ pc = "scan" /\ scan_z < depth
    /\ is_seed(fg_data, seen_data, scan_idx)
    /\ queue' = <<scan_idx>>
    /\ visited' = <<>> /\ edges' = <<>> /\ weights' = <<>>
    /\ box' = [min_z |-> depth - 1, min_y |-> height - 1, min_x |-> width - 1,
               max_z |-> 0, max_y |-> 0, max_x |-> 0]
    /\ pc' = "pop"
    /\ UNCHANGED <<inputs, earlier, seen_data, segments, scanner, idx, nb_i, shed,
                   calls, seg_info>>

\* lines 278-279: the loops are over
ScanReturn ==
    /\ pc = "scan" /\ scan_z >= depth
    /\ pc' = "done"
    /\ UNCHANGED <<inputs, earlier, seen_data, segments, scanner, fill, shed, calls, seg_info>>

(***************************************************************************)
(* compute_connected_components: the flood fill of lines 183-222            *)
(***************************************************************************)
Min2(a, b) == IF a < b THEN a ELSE b
Max2(a, b) == IF a > b THEN a ELSE b

\* lines 194-199 with max_x taken as a minimum
box_update_max_x_min(b, cz, cy, cx) ==
    [min_z |-> Min2(b.min_z, cz), min_y |-> Min2(b.min_y, cy), min_x |-> Min2(b.min_x, cx),
     max_z |-> Max2(b.max_z, cz), max_y |-> Max2(b.max_y, cy), max_x |-> Min2(b.max_x, cx)]

\* lines 194-199
box_update(b, cz, cy, cx) ==
    [min_z |-> Min2(b.min_z, cz), min_y |-> Min2(b.min_y, cy), min_x |-> Min2(b.min_x, cx),
     max_z |-> Max2(b.max_z, cz), max_y |-> Max2(b.max_y, cy), max_x |-> Max2(b.max_x, cx)]

\* line 211 left out: a neighbour is marked only when it is popped
mark_pushed_forgotten(seen, id) == seen

\* line 187 left out: a voxel is marked only when it is pushed
mark_popped_forgotten(seen, id) == seen

\* line 187 and line 211: seen_data[...] = true
mark_popped(seen, id) == [seen EXCEPT ![id] = TRUE]
mark_pushed(seen, id) == [seen EXCEPT ![id] = TRUE]

\* lines 185-199: pop the back of the work list
Pop ==
    /\ pc = "pop" /\ queue # <<>>
    /\ LET id == queue[Len(queue)]
       IN  /\ idx' = id
           /\ queue' = SubSeq(queue, 1, Len(queue) - 1)
           /\ seen_data' = mark_popped(seen_data, id)
           /\ visited' = Append(visited, id)
           /\ box' = box_update(box, z_of(id, height, width),
                                y_of(id, height, width), x_of(id, height, width))
    /\ nb_i' = 0
    /\ pc' = "nbr"
    /\ UNCHANGED <<inputs, earlier, segments, scanner, edges, weights, shed, calls, seg_info>>

\* lines 204-208
in_grid(nz, ny, nx, d, h, w) ==
    nz >= 0 /\ nz < d /\ ny >= 0 /\ ny < h /\ nx >= 0 /\ nx < w

\* line 210
is_new_neighbor(fg, seen, nidx) == fg[nidx] /\ ~seen[nidx]

\* line 217, in half units
edge_weight(ctr, a, b) == ctr[a] + ctr[b]

\* lines 200-221: one pass of the loop over the six offsets
Neighbor ==
    /\ pc = "nbr"
    /\ LET nz == z_of(idx, height, width) + offsets[nb_i * 3 + 1]
           ny == y_of(idx, height, width) + offsets[nb_i * 3 + 2]
           nx == x_of(idx, height, width) + offsets[nb_i * 3 + 3]
           nidx == nz * height * width + ny * width + nx
       IN  IF in_grid(nz, ny, nx, depth, height, width)
              /\ is_new_neighbor(fg_data, seen_data, nidx)
           THEN /\ seen_data' = mark_pushed(seen_data, nidx)
                /\ queue' = Append(queue, nidx)
                /\ edges' = edges \o <<idx, nidx>>
                /\ weights' = Append(weights, edge_weight(ctr_data, idx, nidx))
           ELSE UNCHANGED <<seen_data, queue, edges, weights>>
    /\ IF nb_i + 1 < 6
       THEN nb_i' = nb_i + 1 /\ pc' = "nbr"
       ELSE nb_i' = 0 /\ pc' = "pop"
    /\ UNCHANGED <<inputs, earlier, segments, scanner, visited, box, idx, shed, calls, seg_info>>

(***************************************************************************)
(* hierarchical_watershed, lines 118-143                                    *)
(***************************************************************************)
\* line 129 with >= for >
crosses_frontier_inclusive(is_new, wt, mf) == is_new /\ wt >= mf

\* line 132 with >= and <= for > and <
size_in_range_inclusive(sz, mn, mx) == sz >= mn /\ sz <= mx

\* line 129
crosses_frontier(is_new, wt, mf) == is_new /\ wt > mf

\* line 132
size_in_range(sz, mn, mx) == sz > mn /\ sz < mx

\* lines 118-121: the call, up to the loop
Watershed ==
    /\ pc = "pop" /\ queue = <<>>
    /\ sorted_indices' \in argsort(weights)
    /\ uf' = UnionFindOf(visited)
    /\ num_segments' = 0
    /\ ws_i' = 0
    /\ pc' = "ws"
    /\ UNCHANGED <<inputs, earlier, seen_data, segments, scanner, fill, calls, seg_info>>

\* lines 125-141: one pass of the loop over the sorted edges
WatershedStep ==
    /\ pc = "ws" /\ ws_i < Len(sorted_indices)
    /\ LET e == sorted_indices[ws_i + 1]
           u == edges[e * 2 + 1]
           v == edges[e * 2 + 2]
           un == unite(uf, u, v)
           gs == get_size(un.uf, u)
           gc == get_component(gs.uf, u)
       IN  IF crosses_frontier(un.ret, weights[e + 1], min_frontier)
           THEN IF size_in_range(gs.ret, min_num_pixels, max_num_pixels)
                THEN /\ segments' = Append(segments,
                                           from_visited(gc.ret, depth, height, width))
                     /\ seg_info' = Append(seg_info,
                            [kind |-> "merge", call |-> Len(calls) + 1,
                             voxels |-> gc.ret, u |-> u, v |-> v,
                             weight |-> weights[e + 1], size |-> gs.ret])
                     /\ num_segments' = num_segments + 1
                     /\ uf' = gc.uf
                ELSE /\ uf' = gs.uf
                     /\ UNCHANGED <<segments, seg_info, num_segments>>
           ELSE /\ uf' = un.uf
                /\ UNCHANGED <<segments, seg_info, num_segments>>
    /\ ws_i' = ws_i + 1
    /\ UNCHANGED <<inputs, earlier, seen_data, scanner, fill, sorted_indices, pc, calls>>

\* line 230 never true: no fallback
needs_fallback_never(n) == FALSE

\* line 230 with the size gate of line 132 applied to the fallback too
needs_fallback_size_gated(n) ==
    n = 0 /\ size_in_range(Len(visited), min_num_pixels, max_num_pixels)

\* line 230
needs_fallback(n) == n = 0

\* line 143 and lines 224-238: the watershed returns, the fallback is appended
\* when it emitted nothing, and the scanner's loop goes on
WatershedReturn ==
    /\ pc = "ws" /\ ws_i >= Len(sorted_indices)
    /\ IF needs_fallback(num_segments)
       THEN /\ segments' = Append(segments,
                   from_visited_and_bbox(visited, box.min_z, box.min_y, box.min_x,
                                         box.max_z, box.max_y, box.max_x,
                                         depth, height, width))
            /\ seg_info' = Append(seg_info,
                   [kind |-> "fallback", call |-> Len(calls) + 1,
                    voxels |-> visited, u |-> visited[1], v |-> visited[1],
                    weight |-> 0, size |-> Len(visited)])
       ELSE UNCHANGED <<segments, seg_info>>
    /\ calls' = Append(calls,
           [visited |-> visited, edges |-> edges, weights |-> weights, box |-> box,
            sorted_indices |-> sorted_indices, num_segments |-> num_segments,
            fallback |-> needs_fallback(num_segments)])
    /\ queue' = <<>> /\ visited' = <<>> /\ edges' = <<>> /\ weights' = <<>>
    /\ box' = NoBox /\ idx' = 0 /\ nb_i' = 0
    /\ sorted_indices' = <<>> /\ uf' = UnionFindEmpty /\ num_segments' = 0 /\ ws_i' = 0
    /\ scan_advance
    /\ pc' = "scan"
    /\ UNCHANGED <<inputs, earlier, seen_data>>

Next ==
    \/ ScanSkip \/ ScanCall \/ ScanReturn
    \/ Pop \/ Neighbor
    \/ Watershed \/ WatershedStep \/ WatershedReturn

Spec == Init /\ [][Next]_vars

\* the inputs of the 1 x 3 x 3 example: a grid that is all foreground, a zero
\* boundary field, min_num_pixels = 0, max_num_pixels = 100 and
\* min_frontier = -1 (in half units -2)
ExampleInit ==
    /\ depth = 1 /\ height = 3 /\ width = 3
    /\ fg_data = [v \in Voxels |-> TRUE]
    /\ ctr_data = [v \in Voxels |-> 0]
    /\ min_num_pixels = 0 /\ max_num_pixels = 100 /\ min_frontier = -2
    /\ seen_data = [v \in Voxels |-> FALSE]
    /\ segments = <<>>
    /\ scan_z = 0 /\ scan_y = 0 /\ scan_x = 0
    /\ IdleFill /\ IdleShed
    /\ pc = "scan"
    /\ calls = <<>> /\ seg_info = <<>> /\ earlier = <<>>

\* the pipeline on the bounded inputs and on the example
SpecWithExample == (Init \/ ExampleInit) /\ [][Next]_vars

\* compute_segmentation_hypotheses is called once more with the arguments of
\* the run that has just returned (lines 249-259 again: a zeroed seen_data, an
\* empty segments, the loops at (0, 0, 0)); the caller keeps the first result
RunAgain ==
    /\ pc = "done" /\ earlier = <<>>
    /\ earlier' = <<segments>>
    /\ seen_data' = [v \in Voxels |-> FALSE]
    /\ segments' = <<>>
    /\ scan_z' = 0 /\ scan_y' = 0 /\ scan_x' = 0
    /\ pc' = "scan"
    /\ calls' = <<>> /\ seg_info' = <<>>
    /\ UNCHANGED <<inputs, fill, shed>>

NextTwice == Next \/ RunAgain

\* two runs on the same arguments, one after the other
SpecTwice == Init /\ [][NextTwice]_vars

\* line 125: the loop over the sorted edges has a pass left and takes it
WatershedPass ==
    /\ pc = "ws" /\ ws_i < Len(sorted_indices)
    /\ ws_i' = ws_i + 1

\* the code is sequential and every statement of it ends: whichever step the
\* program is at is taken. The pass of the edge loop is named by its loop
\* header, the only step that moves ws_i.
Fairness ==
    /\ WF_vars(ScanSkip) /\ WF_vars(ScanCall) /\ WF_vars(ScanReturn)
    /\ WF_vars(Pop) /\ WF_vars(Neighbor)
    /\ WF_vars(Watershed) /\ WF_ws_i(WatershedPass) /\ WF_vars(WatershedReturn)

SpecFair == Init /\ [][Next]_vars /\ Fairness

(***************************************************************************)
(* The UnionFind interface on its own: any sequence of calls on one object, *)
(* with external indices 0 .. MaxId.                                        *)
(***************************************************************************)
Ids == 0..MaxId

\* everything but uf and pc is the pipeline's and stays idle here
idle == <<inputs, earlier, seen_data, segments, scanner, fill,
          sorted_indices, num_segments, ws_i, calls, seg_info>>

InitUF ==
    /\ depth = 1 /\ height = 1 /\ width = 1
    /\ fg_data = [v \in {0} |-> FALSE] /\ ctr_data = [v \in {0} |-> 0]
    /\ min_num_pixels = 0 /\ max_num_pixels = 0 /\ min_frontier = 0
    /\ seen_data = [v \in {0} |-> FALSE]
    /\ segments = <<>>
    /\ scan_z = 0 /\ scan_y = 0 /\ scan_x = 0
    /\ IdleFill
    /\ sorted_indices = <<>> /\ num_segments = 0 /\ ws_i = 0
    \* UnionFind() or UnionFind(elements)
    /\ \E elements \in {<<>>} \cup {<<a>> : a \in Ids} \cup {<<a, b>> : a, b \in Ids} :
           uf = UnionFindOf(elements)
    /\ pc = "api"
    /\ calls = <<>> /\ seg_info = <<>> /\ earlier = <<>>

ApiAdd ==
    /\ pc = "api"
    /\ \E a \in Ids :
           uf' = add(uf, a)
    /\ UNCHANGED <<idle, pc>>

ApiFind ==
    /\ pc = "api"
    /\ \E a \in Ids :
           uf' = find(uf, a).uf
    /\ UNCHANGED <<idle, pc>>

ApiUnite ==
    /\ pc = "api"
    /\ \E a, b \in Ids :
           uf' = unite(uf, a, b).uf
    /\ UNCHANGED <<idle, pc>>

ApiConnected ==
    /\ pc = "api"
    /\ \E a, b \in Ids :
           uf' = connected(uf, a, b).uf
    /\ UNCHANGED <<idle, pc>>

ApiGetSize ==
    /\ pc = "api"
    /\ \E a \in Ids :
           uf' = get_size(uf, a).uf
    /\ UNCHANGED <<idle, pc>>

ApiGetComponent ==
    /\ pc = "api"
    /\ \E a \in Ids :
           uf' = get_component(uf, a).uf
    /\ UNCHANGED <<idle, pc>>

NextUF ==
    \/ ApiAdd \/ ApiFind \/ ApiUnite
    \/ ApiConnected \/ ApiGetSize \/ ApiGetComponent

SpecUF == InitUF /\ [][NextUF]_vars

(***************************************************************************)
(* Vocabulary of the UnionFind properties: the sets an object stands for,   *)
(* read off the parent links without changing them.                         *)
(***************************************************************************)
Registered(this) == DOMAIN this.id_map

RECURSIVE RootOf(_, _)
RootOf(this, slot) ==
    IF this.parent[slot + 1] = slot THEN slot ELSE RootOf(this, this.parent[slot + 1])

\* the members of x's set; no set for an index that is not registered
SetOf(this, x) ==
    IF x \in Registered(this)
    THEN {e \in Registered(this) :
             RootOf(this, this.id_map[e]) = RootOf(this, this.id_map[x])}
    ELSE {}

\* the root of every slot, slot k - 1 at position k
RECURSIVE RootsFrom(_, _)
RootsFrom(this, k) ==
    IF k > Len(this.parent) THEN <<>>
    ELSE <<RootOf(this, k - 1)>> \o RootsFrom(this, k + 1)

\* every set paired with the size stored at its root
RootSizes(this) ==
    LET roots == RootsFrom(this, 1)
    IN  {<<{e \in Registered(this) :
               roots[this.id_map[e] + 1] = roots[this.id_map[x] + 1]},
           this.size[roots[this.id_map[x] + 1] + 1]>> :
            x \in Registered(this)}

\* the sets
Partition(this) == {p[1] : p \in RootSizes(this)}

InDifferentSets(this, x, y) == x # y /\ SetOf(this, x) # SetOf(this, y)

NoRepeat(s) == \A a, b \in 1..Len(s) : a # b => s[a] # s[b]

\* what the claim says of a unite(x, y) call made on object this, the sets,
\* sizes and count() "before" being those of object before (sizes is
\* RootSizes(before))
UniteAsClaimed(this, before, sizes, x, y) ==
    LET r == unite(this, x, y)
        Sx == SetOf(before, x)
        Sy == SetOf(before, y)
        sets == {p[1] : p \in sizes}
    IN  /\ r.ret = InDifferentSets(before, x, y)
        /\ IF r.ret
           THEN /\ SetOf(r.uf, x) = Sx \cup Sy
                /\ Partition(r.uf) = (sets \ {Sx, Sy}) \cup {Sx \cup Sy}
                /\ count(r.uf) = count(before) - 1
           ELSE \* equal RootSizes: the same sets, each with the same size
                /\ RootSizes(r.uf) = sizes
                /\ count(r.uf) = count(before)

\* C6 as stated: for every x and y, unite(x, y) returns true iff x and y were in
\* different sets; after true the set of x is the union of the two former sets,
\* every other set is unchanged and count() is one lower; after false the
\* partition, the sizes and count() are unchanged.
C6_UniteAnyIndex ==
    pc = "api" =>
        LET sizes == RootSizes(uf)
        IN  \A x, y \in Ids : UniteAsClaimed(uf, uf, sizes, x, y)

\* C6 amended: unite(x, y) first registers x and y when they are absent, each as
\* a singleton (as add does); with the sets and count() taken after that
\* registration the claim holds.  For x and y already registered this is the
\* claim itself.
C6_UniteAfterRegistration ==
    pc = "api" =>
        LET sizes == RootSizes(uf)
        IN  \A x, y \in Ids :
                LET before == add(add(uf, x), y)
                IN  UniteAsClaimed(uf, before,
                                   IF before = uf THEN sizes ELSE RootSizes(before),
                                   x, y)

\* both outcomes on sets of several members, and a call that registers
C6_Witness ==
    /\ pc = "api"
    /\ \E x, y \in Registered(uf) :
           /\ unite(uf, x, y).ret
           /\ Cardinality(SetOf(uf, x)) >= 2
    /\ \E x, y \in Registered(uf) : x # y /\ ~unite(uf, x, y).ret
    /\ \E x \in Ids \ Registered(uf) : \E y \in Registered(uf) : unite(uf, x, y).ret

\* C7: for every registered x, get_size(x) is the number of indices that
\* get_component(x) returns, and get_component(x) lists exactly the members of
\* x's set, none twice; for an x never registered get_size(x) is 0,
\* get_component(x) is empty and neither call registers x.
C7_SizeAndComponent ==
    pc = "api" =>
        \A x \in Ids :
            LET gs == get_size(uf, x)
                gc == get_component(uf, x)
            IN  IF x \in Registered(uf)
                THEN /\ gs.ret = Len(gc.ret)
                     /\ SeqRange(gc.ret) = SetOf(uf, x)
                     /\ NoRepeat(gc.ret)
                     /\ gs.ret = Cardinality(SetOf(uf, x))
                ELSE /\ gs.ret = 0 /\ gc.ret = <<>>
                     /\ gs.uf = uf /\ gc.uf = uf
                     /\ x \notin Registered(gs.uf) /\ x \notin Registered(gc.uf)

\* a set of three members and an index never registered
C7_Witness ==
    /\ pc = "api"
    /\ \E x \in Registered(uf) :
           /\ get_size(uf, x).ret = 3
           /\ Len(get_component(uf, x).ret) = 3
    /\ Ids \ Registered(uf) # {}

\* after holds the sets of the object whose slots have the roots given: every
\* index keeps its slot and every slot its root (so the partition is the same),
\* the size stored at every slot, a root's among them, is the same, and so is
\* count()
SameSets(after, before, roots) ==
    /\ after.id_map = before.id_map
    /\ RootsFrom(after, 1) = roots
    /\ after.size = before.size
    /\ count(after) = count(before)

\* C8: find(x) on a registered x, and the find_internal calls inside get_size,
\* get_component, connected and unite (before it links), leave the partition,
\* the size stored at every root and count() unchanged; two registered indices
\* have equal find results iff they are in the same set.
C8_CompressionKeepsSets ==
    pc = "api" =>
        LET roots == RootsFrom(uf, 1)
        IN  /\ \A x \in Registered(uf) :
                   /\ SameSets(find(uf, x).uf, uf, roots)
                   /\ SameSets(get_size(uf, x).uf, uf, roots)
                   /\ SameSets(get_component(uf, x).uf, uf, roots)
            /\ \A x, y \in Registered(uf) :
                   LET fx == find(uf, x)
                       fy == find(fx.uf, y)
                       \* the two find_internal calls of unite and of
                       \* connected, lines 103-104 and 135
                       ux == find_internal(uf, uf.id_map[x])
                       uy == find_internal(ux.uf, uf.id_map[y])
                   IN  /\ connected(uf, x, y).uf = uy.uf
                       /\ SameSets(uy.uf, uf, roots)
                       \* same set: same root before any compression
                       /\ (fx.ret = fy.ret) =
                              (roots[uf.id_map[x] + 1] = roots[uf.id_map[y] + 1])

\* a state in which find(x) does re-parent a slot
C8_Witness ==
    /\ pc = "api"
    /\ \E x \in Registered(uf) : find(uf, x).uf.parent # uf.parent

\* C9: add(x) on a registered x leaves the whole state unchanged; on an x not
\* registered it creates one singleton set {x} of size 1, raises count() by one
\* and leaves every existing set (and every existing slot) unchanged.
C9_AddIdempotent ==
    pc = "api" =>
        \A x \in Ids :
            LET a == add(uf, x)
            IN  /\ add(a, x) = a
                /\ x \in Registered(uf) => a = uf
                /\ x \notin Registered(uf) =>
                      /\ SetOf(a, x) = {x}
                      /\ get_size(a, x).ret = 1
                      /\ Partition(a) = Partition(uf) \cup {{x}}
                      /\ RootSizes(a) = RootSizes(uf) \cup {<<{x}, 1>>}
                      /\ count(a) = count(uf) + 1
                      /\ \A e \in Registered(uf) : a.id_map[e] = uf.id_map[e]
                      /\ SubSeq(a.parent, 1, Len(uf.parent)) = uf.parent
                      /\ SubSeq(a.rank, 1, Len(uf.rank)) = uf.rank
                      /\ SubSeq(a.size, 1, Len(uf.size)) = uf.size

\* a set of two members, a registered singleton and an index not yet registered
C9_Witness ==
    /\ pc = "api"
    /\ \E x \in Registered(uf) : Cardinality(SetOf(uf, x)) = 2
    /\ \E x \in Registered(uf) : Cardinality(SetOf(uf, x)) = 1
    /\ Ids \ Registered(uf) # {}

(***************************************************************************)
(* Vocabulary of the pipeline properties: the 6-connected components of the *)
(* foreground, and the voxels a Segment's mask stands for.                  *)
(***************************************************************************)
Abs(a) == IF a < 0 THEN -a ELSE a

Fg == {v \in Voxels : fg_data[v]}

FaceAdjacent(a, b) ==
    Abs(z_of(a, height, width) - z_of(b, height, width))
        + Abs(y_of(a, height, width) - y_of(b, height, width))
        + Abs(x_of(a, height, width) - x_of(b, height, width)) = 1

\* the foreground voxels joined to S by a path of face-adjacent foreground voxels
RECURSIVE Grow(_)
Grow(S) ==
    LET T == S \cup {b \in Fg : \E a \in S : FaceAdjacent(a, b)}
    IN  IF T = S THEN S ELSE Grow(T)

Components == {Grow({v}) : v \in Fg}

\* the voxels joined to S by the edges of a flat edge list
RECURSIVE GrowByEdges(_, _)
GrowByEdges(S, es) ==
    LET T == S \cup {es[2 * j] : j \in {i \in 1..(Len(es) \div 2) : es[2 * i - 1] \in S}}
               \cup {es[2 * j - 1] : j \in {i \in 1..(Len(es) \div 2) : es[2 * i] \in S}}
    IN  IF T = S THEN S ELSE GrowByEdges(T, es)

\* the grid voxels whose cell of the Segment's mask is true
SegmentVoxels(s) ==
    {v \in Voxels :
        LET rz == z_of(v, height, width) - s.z
            ry == y_of(v, height, width) - s.y
            rx == x_of(v, height, width) - s.x
        IN  /\ rz \in 0..(s.mask.shape[1] - 1)
            /\ ry \in 0..(s.mask.shape[2] - 1)
            /\ rx \in 0..(s.mask.shape[3] - 1)
            /\ s.mask.data[rz * s.mask.shape[2] * s.mask.shape[3]
                           + ry * s.mask.shape[3] + rx]}

\* the positions in segments of the Segments appended during call k
SegmentsOf(k) == {j \in 1..Len(segments) : seg_info[j].call = k}

BoxTuple(b) == <<b.min_z, b.min_y, b.min_x, b.max_z, b.max_y, b.max_x>>

\* C1: the visited lists of the flood-fill calls are exactly the 6-connected
\* components of the foreground: each list is one component without a repeat,
\* no two calls share a voxel, no background voxel is listed, and when the scan
\* is over every foreground voxel is in a list.
C1_VisitedAreComponents ==
    pc # "api" =>
        /\ \A k \in 1..Len(calls) :
               /\ NoRepeat(calls[k].visited)
               /\ SeqRange(calls[k].visited) \in Components
        /\ \A j, k \in 1..Len(calls) :
               j # k => SeqRange(calls[j].visited) \cap SeqRange(calls[k].visited) = {}
        /\ pc = "done" =>
               {SeqRange(calls[k].visited) : k \in 1..Len(calls)} = Components

\* the scan is over with several components, one of several voxels, and
\* background voxels
C1_Witness ==
    /\ pc = "done"
    /\ Len(calls) >= 2
    /\ \E k \in 1..Len(calls) : Len(calls[k].visited) >= 2
    /\ Fg # Voxels

\* C2: a call on a component of n voxels records n-1 discovery edges, a spanning
\* tree: the seed is the second endpoint of no edge, every other visited voxel
\* of exactly one, the endpoints of every edge are face-adjacent voxels of the
\* visited list, and the edges join the whole list to the seed.
C2_EdgesAreSpanningTree ==
    pc # "api" =>
        \A k \in 1..Len(calls) :
            LET c == calls[k]
                n == Len(c.visited)
                E == 1..(Len(c.edges) \div 2)
            IN  /\ Len(c.edges) = 2 * (n - 1)
                /\ Len(c.weights) = n - 1
                /\ n = Cardinality(Grow({c.visited[1]}))
                /\ \A j \in E : c.edges[2 * j] # c.visited[1]
                /\ \A a \in 2..n :
                       Cardinality({j \in E : c.edges[2 * j] = c.visited[a]}) = 1
                /\ \A j \in E :
                       /\ c.edges[2 * j - 1] \in SeqRange(c.visited)
                       /\ c.edges[2 * j] \in SeqRange(c.visited)
                       /\ FaceAdjacent(c.edges[2 * j - 1], c.edges[2 * j])
                /\ GrowByEdges({c.visited[1]}, c.edges) = SeqRange(c.visited)

\* a component of four voxels with more adjacent pairs than a tree has edges
C2_Witness ==
    /\ pc = "done"
    /\ \E k \in 1..Len(calls) :
           /\ Len(calls[k].visited) = 4
           /\ Cardinality({p \in SeqRange(calls[k].visited) \X SeqRange(calls[k].visited) :
                              p[1] < p[2] /\ FaceAdjacent(p[1], p[2])}) > 3

\* C3: every call appends at least one Segment.  When hierarchical_watershed
\* emitted none it appends exactly one, whose voxels are the whole visited list
\* and whose bounding box is the one the flood fill tracked; when
\* hierarchical_watershed emitted some it appends no fallback.
C3_FallbackGuarantee ==
    pc # "api" =>
        /\ Len(seg_info) = Len(segments)
        /\ \A k \in 1..Len(calls) :
               LET c == calls[k]
               IN  /\ SegmentsOf(k) # {}
                   /\ c.num_segments = 0 =>
                          /\ Cardinality(SegmentsOf(k)) = 1
                          /\ \A j \in SegmentsOf(k) :
                                 /\ seg_info[j].kind = "fallback"
                                 /\ SegmentVoxels(segments[j]) = SeqRange(c.visited)
                                 /\ segments[j].num_pixels = Len(c.visited)
                                 /\ segments[j].bbox = BoxTuple(c.box)
                   /\ c.num_segments > 0 =>
                          /\ Cardinality(SegmentsOf(k)) = c.num_segments
                          /\ \A j \in SegmentsOf(k) : seg_info[j].kind = "merge"

\* one call whose watershed emitted and one whose watershed did not
C3_Witness ==
    /\ pc = "done"
    /\ \E k \in 1..Len(calls) : calls[k].num_segments > 0
    /\ \E k \in 1..Len(calls) : calls[k].num_segments = 0

\* C4: every Segment emitted by hierarchical_watershed has
\* min_num_pixels < num_pixels < max_num_pixels and was emitted at an edge whose
\* weight is greater than min_frontier.
C4_SizeGate ==
    pc # "api" =>
        \A j \in 1..Len(segments) :
            seg_info[j].kind = "merge" =>
                /\ segments[j].num_pixels > min_num_pixels
                /\ segments[j].num_pixels < max_num_pixels
                /\ seg_info[j].weight > min_frontier
                /\ seg_info[j].size = segments[j].num_pixels

\* a merge emitted just inside both bounds after a smaller merge was not
C4_Witness ==
    /\ pc = "done"
    /\ min_num_pixels >= 2
    /\ \E j \in 1..Len(segments) :
           /\ seg_info[j].kind = "merge"
           /\ segments[j].num_pixels = min_num_pixels + 1
           /\ segments[j].num_pixels = max_num_pixels - 1

\* C5: in every Segment the number of true cells of mask is num_pixels, the
\* extents of mask are bbox max - min + 1 on each axis, and the origin (z, y, x)
\* is the bbox minimum.
C5_MaskMatchesBox ==
    pc # "api" =>
        \A j \in 1..Len(segments) :
            LET s == segments[j]
            IN  /\ Cardinality({p \in DOMAIN s.mask.data : s.mask.data[p]}) = s.num_pixels
                /\ s.mask.shape = <<s.bbox[4] - s.bbox[1] + 1,
                                    s.bbox[5] - s.bbox[2] + 1,
                                    s.bbox[6] - s.bbox[3] + 1>>
                /\ DOMAIN s.mask.data =
                       0..(s.mask.shape[1] * s.mask.shape[2] * s.mask.shape[3] - 1)
                /\ <<s.z, s.y, s.x>> = <<s.bbox[1], s.bbox[2], s.bbox[3]>>
                /\ Cardinality(SegmentVoxels(s)) = s.num_pixels

\* a Segment of two voxels and a later one of three that does not fill its box
C5_Witness ==
    /\ pc = "done"
    /\ \E j \in 1..Len(segments) : segments[j].num_pixels = 2
    /\ \E j \in 1..Len(segments) :
           /\ segments[j].num_pixels = 3
           /\ Cardinality(DOMAIN segments[j].mask.data) = 4

\* no merge can qualify: the frontier is at or above every edge weight, or
\* the size bounds leave no size between them
NoMergeQualifies ==
    \/ min_num_pixels >= max_num_pixels
    \/ \A k \in 1..Len(calls) :
           \A a \in 1..Len(calls[k].weights) : calls[k].weights[a] <= min_frontier

\* C10: when no merge can qualify, every component emits exactly one Segment,
\* the whole-component fallback, and the output has as many Segments as the
\* foreground has 6-connected components.
C10_OnlyFallbacks ==
    (pc = "done" /\ NoMergeQualifies) =>
        /\ Len(segments) = Cardinality(Components)
        /\ Len(segments) = Len(calls)
        /\ \A j \in 1..Len(segments) :
               /\ seg_info[j].kind = "fallback"
               /\ seg_info[j].call = j
               /\ SegmentVoxels(segments[j]) = SeqRange(calls[j].visited)
               /\ SegmentVoxels(segments[j]) \in Components

\* size bounds with no size between them, and a component of several voxels
\* whose edges all exceed the frontier
C10_Witness ==
    /\ pc = "done"
    /\ min_num_pixels >= max_num_pixels
    /\ Len(calls) >= 2
    /\ \E k \in 1..Len(calls) :
           /\ Len(calls[k].visited) >= 2
           /\ \A a \in 1..Len(calls[k].weights) : calls[k].weights[a] > min_frontier

\* the tight bounding box of a set of voxels, as (min_z, min_y, min_x, max_z,
\* max_y, max_x)
TightBox(S) ==
    <<MinOf({z_of(v, height, width) : v \in S}),
      MinOf({y_of(v, height, width) : v \in S}),
      MinOf({x_of(v, height, width) : v \in S}),
      MaxOf({z_of(v, height, width) : v \in S}),
      MaxOf({y_of(v, height, width) : v \in S}),
      MaxOf({x_of(v, height, width) : v \in S})>>

\* every merge of call k can qualify: its weights all exceed min_frontier and
\* the size bounds admit every size from 2 to the number of voxels
EveryMergeQualifies(k) ==
    /\ Len(calls[k].visited) >= 2
    /\ \A a \in 1..Len(calls[k].weights) : calls[k].weights[a] > min_frontier
    /\ min_num_pixels < 2
    /\ max_num_pixels > Len(calls[k].visited)

\* the inputs are those of the 1 x 3 x 3 example
IsExample ==
    /\ depth = 1 /\ height = 3 /\ width = 3
    /\ Fg = Voxels
    /\ \A v \in Voxels : ctr_data[v] = 0
    /\ min_num_pixels = 0 /\ max_num_pixels = 100 /\ min_frontier = -2

\* C11: when every merge of a component of n >= 2 voxels can qualify, each of
\* its n-1 merges emits a Segment and the last Segment emitted for it is the
\* whole component, with num_pixels = n and the component's bounding box; the
\* 1 x 3 x 3 example yields a Segment of 9 voxels with bbox [0,0,0,0,2,2].
C11_EveryMergeEmits ==
    pc # "api" =>
        /\ \A k \in 1..Len(calls) :
               EveryMergeQualifies(k) =>
                   LET c == calls[k]
                       n == Len(c.visited)
                       last == MaxOf(SegmentsOf(k))
                   IN  /\ c.num_segments = n - 1
                       /\ Cardinality(SegmentsOf(k)) = n - 1
                       /\ \A j \in SegmentsOf(k) : seg_info[j].kind = "merge"
                       /\ segments[last].num_pixels = n
                       /\ SegmentVoxels(segments[last]) = SeqRange(c.visited)
                       /\ segments[last].bbox = TightBox(SeqRange(c.visited))
        /\ (pc = "done" /\ IsExample) =>
               /\ Len(segments) = 8
               /\ \E j \in 1..Len(segments) :
                      /\ segments[j].num_pixels = 9
                      /\ segments[j].bbox = <<0, 0, 0, 0, 2, 2>>

\* the example has run to its end
C11_Witness ==
    /\ pc = "done"
    /\ IsExample
    /\ Len(calls) = 1
    /\ EveryMergeQualifies(1)

\* C12: a component of a single voxel yields exactly one Segment, with
\* num_pixels = 1 and a 1 x 1 x 1 mask, whatever min_num_pixels, max_num_pixels
\* and min_frontier are; two foreground voxels that are not face-adjacent yield
\* two Segments of one voxel each.
C12_SingleVoxel ==
    pc # "api" =>
        /\ \A k \in 1..Len(calls) :
               Len(calls[k].visited) = 1 =>
                   /\ Cardinality(SegmentsOf(k)) = 1
                   /\ \A j \in SegmentsOf(k) :
                          /\ seg_info[j].kind = "fallback"
                          /\ segments[j].num_pixels = 1
                          /\ segments[j].mask.shape = <<1, 1, 1>>
                          /\ segments[j].mask.data = [p \in {0} |-> TRUE]
                          /\ SegmentVoxels(segments[j]) = {calls[k].visited[1]}
        /\ (pc = "done" /\ Cardinality(Fg) = 2
                /\ \A a, b \in Fg : ~FaceAdjacent(a, b)) =>
               /\ Len(segments) = 2
               /\ \A j \in 1..2 : segments[j].num_pixels = 1
               /\ SegmentVoxels(segments[1]) \cup SegmentVoxels(segments[2]) = Fg

\* two foreground voxels with a background voxel between them, and size bounds
\* that exclude the size 1
C12_Witness ==
    /\ pc = "done"
    /\ depth * height * width = 3
    /\ Fg = {0, 2}
    /\ min_num_pixels = 2
    /\ Len(segments) = 2

C14_StableSortOrder ==
    pc = "ws" =>
        \A a, b \in 1..Len(sorted_indices) :
            a < b =>
                LET wa == weights[sorted_indices[a] + 1]
                    wb == weights[sorted_indices[b] + 1]
                IN  /\ wa <= wb
                    /\ wa = wb => sorted_indices[a] < sorted_indices[b]

\* the edge that the next pass of the watershed loop takes, and the set its
\* two ends make together
NextEdge == sorted_indices[ws_i + 1]
NextU == edges[NextEdge * 2 + 1]
NextV == edges[NextEdge * 2 + 2]
NextMerged == SetOf(uf, NextU) \cup SetOf(uf, NextV)

\* the pass merges two sets, over a weight above min_frontier, into a set whose
\* size is strictly between the size bounds
NextEdgeQualifies ==
    /\ InDifferentSets(uf, NextU, NextV)
    /\ weights[NextEdge + 1] > min_frontier
    /\ Cardinality(NextMerged) > min_num_pixels
    /\ Cardinality(NextMerged) < max_num_pixels

\* C15: a pass of the loop of hierarchical_watershed appends a Segment if and
\* only if its unite merged two sets, the weight is above min_frontier and the
\* merged size is strictly between min_num_pixels and max_num_pixels; the
\* Segment's voxels are the merged set of u; and the value returned is the
\* number of Segments the call appended.
C15_EmissionRule ==
    [][/\ (pc = "ws" /\ ws_i < Len(sorted_indices)) =>
              /\ ws_i' = ws_i + 1
              /\ IF NextEdgeQualifies
                 THEN /\ Len(segments') = Len(segments) + 1
                      /\ SubSeq(segments', 1, Len(segments)) = segments
                      /\ SegmentVoxels(segments'[Len(segments')]) = NextMerged
                      /\ segments'[Len(segments')].num_pixels = Cardinality(NextMerged)
                      /\ SetOf(uf', NextU) = NextMerged
                      /\ num_segments' = num_segments + 1
                 ELSE /\ segments' = segments
                      /\ num_segments' = num_segments
       /\ (pc = "ws" /\ pc' = "scan") =>
              /\ calls'[Len(calls')].num_segments = num_segments
              /\ num_segments =
                     Cardinality({j \in 1..Len(segments) :
                                     /\ seg_info[j].call = Len(calls')
                                     /\ seg_info[j].kind = "merge"})
      ]_vars

\* a call of three edges is over: one edge was at the frontier, one merge was
\* emitted and one was too large
C15_Witness ==
    /\ pc = "ws"
    /\ ws_i = 3 /\ Len(sorted_indices) = 3
    /\ num_segments = 1
    /\ Cardinality({a \in 1..3 : weights[a] > min_frontier}) = 2
    /\ max_num_pixels = 4

\* C16: unite links by rank.  With x and y registered and their roots rx and ry
\* different: when the ranks differ the root of lower rank is attached under
\* the root of higher rank and no rank changes; when they are equal ry is
\* attached under rx and the rank of rx grows by one, no other rank changes; in
\* every case the surviving root stays a root and its size becomes the sum of
\* the two former sizes.
C16_LinkByRank ==
    pc = "api" =>
        \A x, y \in Ids :
            LET before == add(add(uf, x), y)
                rx == RootOf(before, before.id_map[x])
                ry == RootOf(before, before.id_map[y])
                kx == before.rank[rx + 1]
                ky == before.rank[ry + 1]
                after == unite(uf, x, y).uf
                low == IF kx < ky THEN rx ELSE ry
                high == IF kx < ky THEN ry ELSE rx
            IN  rx # ry =>
                    /\ after.parent[low + 1] = high
                    /\ after.parent[high + 1] = high
                    /\ after.size[high + 1] = before.size[rx + 1] + before.size[ry + 1]
                    /\ after.rank =
                           IF kx = ky
                           THEN [before.rank EXCEPT ![rx + 1] = kx + 1]
                           ELSE before.rank

\* a state from which unite can link a lower root under a higher one, a higher
\* one over a lower one, and two roots of equal rank
C16_Witness ==
    /\ pc = "api"
    /\ \E x, y, z \in Registered(uf) :
           LET rx == RootOf(uf, uf.id_map[x])
               ry == RootOf(uf, uf.id_map[y])
               rz == RootOf(uf, uf.id_map[z])
           IN  /\ rx # ry /\ ry # rz /\ rx # rz
               /\ uf.rank[rx + 1] < uf.rank[ry + 1]
               /\ uf.rank[rx + 1] = uf.rank[rz + 1]
               /\ unite(uf, x, y).uf.parent[rx + 1] = ry
               /\ unite(uf, y, x).uf.parent[rx + 1] = ry
               /\ unite(uf, x, z).uf.parent[rz + 1] = rx

\* no flag of seen_data goes back to false in a step
SeenOnlyGrows == \A v \in Voxels : seen_data[v] => seen_data'[v]

\* only foreground voxels are marked
OnlyForegroundSeen == \A v \in Voxels : seen_data[v] => fg_data[v]

\* the work list holds no index twice and none that is in the visited list
WorkListDistinct ==
    /\ NoRepeat(queue)
    /\ SeqRange(queue) \cap SeqRange(visited) = {}

\* every index in the work list is marked in seen_data
WorkListSeen == \A a \in 1..Len(queue) : seen_data[queue[a]]

\* every index in the work list is marked in seen_data, but for the seed while
\* nothing has been popped yet
WorkListSeenButSeed ==
    \A a \in 1..Len(queue) :
        seen_data[queue[a]] \/ (visited = <<>> /\ queue = <<scan_idx>>)

\* C17 as stated: over the whole scan no flag of seen_data is ever reset, only
\* foreground voxels are marked, and at every step of a flood-fill call the
\* work list holds no repeated index, every index in it is marked in seen_data
\* and none is in the visited list.
C17_WorkListAllSeen ==
    [][/\ SeenOnlyGrows
       /\ OnlyForegroundSeen /\ OnlyForegroundSeen'
       /\ WorkListDistinct /\ WorkListDistinct'
       /\ WorkListSeen /\ WorkListSeen'
      ]_vars

\* C17 amended: the same, except that the seed is in the work list unmarked
\* from the start of the call until it is popped (line 187 marks it then);
\* every other index is marked when it is pushed.
C17_WorkListSeenAfterSeed ==
    [][/\ SeenOnlyGrows
       /\ OnlyForegroundSeen /\ OnlyForegroundSeen'
       /\ WorkListDistinct /\ WorkListDistinct'
       /\ WorkListSeenButSeed /\ WorkListSeenButSeed'
       /\ (pc = "scan" /\ pc' = "pop") => ~seen_data'[queue'[1]]
      ]_vars

\* the voxel popped last has a neighbour that waits in the work list, pushed
\* there from another voxel
C17_Witness ==
    /\ pc = "pop"
    /\ visited # <<>>
    /\ \E a \in 1..Len(queue) :
           /\ FaceAdjacent(visited[Len(visited)], queue[a])
           /\ \A j \in 1..Len(weights) :
                  <<edges[2 * j - 1], edges[2 * j]>> # <<visited[Len(visited)], queue[a]>>

\* the scanner visits the linear indices in ascending order, each once: a
\* loop body that ends (a skipped index, or a call that returns) leads to the
\* next index, and no other step moves the scanner
ScanAscending ==
    /\ scan_idx' =
           IF (pc = "scan" /\ pc' = "scan") \/ (pc = "ws" /\ pc' = "scan")
           THEN scan_idx + 1
           ELSE scan_idx
    /\ pc' # "done" => scan_y' < height /\ scan_x' < width
    /\ pc' = "done" => scan_idx' = depth * height * width

\* a flood-fill call pops one index per pass and leaves its loop with an empty
\* work list, having popped as many indices as the seed's component has voxels
FillPopsComponent ==
    /\ (pc = "pop" /\ pc' = "nbr") =>
           /\ Len(visited') = Len(visited) + 1
           /\ Len(visited') <= Cardinality(Grow({visited'[1]}))
    /\ (pc = "pop" /\ pc' = "ws") =>
           /\ queue = <<>>
           /\ Len(visited) = Cardinality(Grow({visited[1]}))

\* C18: every flood-fill call ends with an empty work list after popping as
\* many indices as its component has voxels, and the scan ends after visiting
\* every linear index once, in ascending order.
C18_Terminates ==
    /\ <>(pc = "done")
    /\ [](pc = "pop" => <>(pc = "ws"))
    /\ [][ScanAscending /\ FillPopsComponent]_vars

\* the scan of a grid of four voxels is over after two calls
C18_Witness ==
    /\ pc = "done"
    /\ scan_idx = 4
    /\ Len(calls) = 2
    /\ \E k \in 1..2 : Len(calls[k].visited) >= 2


\* every voxel of Segment j is written at a relative position inside its mask
WritesInsideMask(j) ==
    \A a \in 1..Len(seg_info[j].voxels) :
        LET id == seg_info[j].voxels[a]
            rz == z_of(id, height, width) - segments[j].z
            ry == y_of(id, height, width) - segments[j].y
            rx == x_of(id, height, width) - segments[j].x
        IN  /\ 0 <= rz /\ rz < segments[j].mask.shape[1]
            /\ 0 <= ry /\ ry < segments[j].mask.shape[2]
            /\ 0 <= rx /\ rx < segments[j].mask.shape[3]

\* C19: the bounding box of every Segment is tight, each of its six bounds being
\* attained by a voxel of the Segment, for the box the flood fill tracks (as
\* soon as a voxel is popped, and in the fallback Segment built from it) and
\* for the box Segment::from_visited recomputes (every merge Segment); so every
\* mask write of from_visited_and_bbox is at a relative position inside the
\* mask.
C19_TightBoxes ==
    /\ (pc \in {"nbr", "ws"}) => BoxTuple(box) = TightBox(SeqRange(visited))
    /\ \A k \in 1..Len(calls) :
           BoxTuple(calls[k].box) = TightBox(SeqRange(calls[k].visited))
    /\ \A j \in 1..Len(segments) :
           /\ segments[j].bbox = TightBox(SeqRange(seg_info[j].voxels))
           /\ WritesInsideMask(j)
           /\ ~segments[j].oob

\* a flood fill of several voxels away from the origin of the grid whose box
\* was tracked and then recomputed for a merge Segment, next to a fallback
\* Segment built from the tracked box of another call
C19_Witness ==
    /\ pc = "done"
    /\ \E i, j \in 1..Len(segments) :
           /\ seg_info[i].kind = "merge" /\ seg_info[j].kind = "fallback"
           /\ segments[i].num_pixels >= 2
           /\ 0 \notin SeqRange(calls[seg_info[i].call].visited)
           /\ segments[i].bbox = BoxTuple(calls[seg_info[i].call].box)
           /\ segments[i].bbox # <<0, 0, 0, 0, 0, 0>>


\* C20: the edges handed to hierarchical_watershed form a spanning tree of the
\* visited list, so every unite call of its loop returns true (the two ends of
\* the edge are in different sets when the pass starts), the union-find never
\* registers an index outside the visited list, and after the last edge it
\* holds exactly one set, whose size is the number of visited voxels.
C20_SpanningTreeUnions ==
    pc = "ws" =>
        /\ Registered(uf) \subseteq SeqRange(visited)
        /\ ws_i < Len(sorted_indices) =>
               /\ InDifferentSets(uf, NextU, NextV)
               /\ unite(uf, NextU, NextV).ret
        /\ ws_i >= Len(sorted_indices) =>
               /\ count(uf) = 1
               /\ SetOf(uf, visited[1]) = SeqRange(visited)
               /\ get_size(uf, visited[1]).ret = Len(visited)

\* the loop has run over the edges of a component of three voxels or more
C20_Witness ==
    /\ pc = "ws"
    /\ Len(visited) >= 3
    /\ ws_i = Len(sorted_indices)
    /\ ws_i = Len(visited) - 1


\* the voxel sets of Segments i and j are disjoint
SegmentsDisjoint(i, j) ==
    SegmentVoxels(segments[i]) \cap SegmentVoxels(segments[j]) = {}

\* the voxel set of Segment i is strictly inside the voxel set of Segment j
SegmentStrictlyInside(i, j) ==
    /\ SegmentVoxels(segments[i]) \subseteq SegmentVoxels(segments[j])
    /\ SegmentVoxels(segments[i]) # SegmentVoxels(segments[j])

\* C21: the Segments of the output form a nested family.  Two Segments emitted
\* for the same connected component have voxel sets that are disjoint or one
\* strictly inside the other, the inner one emitted earlier; Segments of
\* different connected components are disjoint.
C21_NestedFamily ==
    \A i, j \in 1..Len(segments) :
        i < j =>
            IF seg_info[i].call = seg_info[j].call
            THEN SegmentsDisjoint(i, j) \/ SegmentStrictlyInside(i, j)
            ELSE /\ SegmentsDisjoint(i, j)
                 /\ \A C \in Components :
                        ~(/\ SegmentVoxels(segments[i]) \cap C # {}
                          /\ SegmentVoxels(segments[j]) \cap C # {})

\* one component gave two disjoint Segments and then a Segment holding both,
\* or two nested Segments next to the Segment of another component
C21_Witness ==
    /\ pc = "done"
    /\ \E i, j, k \in 1..Len(segments) :
           /\ i < j /\ j < k
           /\ seg_info[i].call = seg_info[j].call
           /\ seg_info[j].call = seg_info[k].call
           /\ SegmentsDisjoint(i, j)
           /\ SegmentStrictlyInside(i, k)
           /\ SegmentStrictlyInside(j, k)


\* the voxels of S reached from T by steps between face-adjacent voxels of S
RECURSIVE GrowWithin(_, _)
GrowWithin(T, S) ==
    LET U == T \cup {b \in S : \E a \in T : FaceAdjacent(a, b)}
    IN  IF U = T THEN T ELSE GrowWithin(U, S)

\* S is 6-connected: any voxel of it reaches every other one inside S
SixConnected(S) == \A v \in S : GrowWithin({v}, S) = S

\* C22: the voxel set of every output Segment is a non-empty, 6-connected
\* subset of the foreground that lies inside a single connected component, and
\* a Segment emitted by a merge has at least two voxels.
C22_ConnectedSegments ==
    \A j \in 1..Len(segments) :
        LET S == SegmentVoxels(segments[j])
        IN  /\ S # {}
            /\ S \subseteq Fg
            /\ SixConnected(S)
            /\ \E C \in Components : S \subseteq C
            /\ seg_info[j].kind = "merge" =>
                   /\ Cardinality(S) >= 2
                   /\ segments[j].num_pixels >= 2

\* merge Segments of two and of three voxels or more, in a grid that has
\* background voxels too
C22_Witness ==
    /\ pc = "done"
    /\ Fg # Voxels
    /\ \E i, j \in 1..Len(segments) :
           /\ seg_info[i].kind = "merge" /\ seg_info[j].kind = "merge"
           /\ Cardinality(SegmentVoxels(segments[i])) = 2
           /\ Cardinality(SegmentVoxels(segments[j])) >= 3

=============================================================================
